---- MODULE Spec2Model ----
(***************************************************************************)
(* State-machine model of wayland_client_demo.c: a single-threaded Wayland *)
(* client that binds globals, creates an xdg toplevel (optionally with a   *)
(* server-side decoration request), creates an EGL window surface and then *)
(* renders in an endless clear / swap / dispatch / flush / sleep loop.     *)
(*                                                                         *)
(* The compositor is the environment.  Its events enter the client's       *)
(* default event queue only where the connection is read: inside           *)
(* wl_display_roundtrip (blocking) and inside eglSwapBuffers (the EGL      *)
(* platform reads the socket while presenting).  wl_display_dispatch_      *)
(* pending never reads; it runs the handlers of what is already queued.    *)
(* The compositor may send an event on an object only once the request     *)
(* creating the object has been flushed to it.                             *)
(*                                                                         *)
(* Left out: the animation time t and the clear colour (no handler or      *)
(* branch reads them) and wl_registry.global_remove (its handler is        *)
(* empty).                                                                 *)
(***************************************************************************)
EXTENDS Integers, Sequences, FiniteSets, TLC

\* ---------------------------------------------------------------- bounds
\* Events the compositor sends in a run besides the initial advertisement of
\* its globals and the sync replies.
MaxEvents == 2

\* ------------------------------------------------------- program constants
NULL == 0
EGL_NO_DISPLAY == NULL
EGL_NO_CONTEXT == NULL
EGL_NO_SURFACE == NULL
InitialWidth == 640
InitialHeight == 480
NotExited == 0 - 1

VARIABLES
    pc,                 \* position of main
    exit_status,        \* NotExited, or the status the process ended with
    stderr,             \* messages printed, in order
    display, registry, compositor, xdg_wm,
    decoration_manager, toplevel_decoration,
    wl_surface, xdg_surface, xdg_toplevel,
    egl_window, egl_display, egl_context, egl_surface, egl_config,
    width, height, configured,
    egl_window_size,    \* size of the wl_egl_window, <<0, 0>> while there is none
    viewport,           \* the GL viewport of the current context
    egl_current,        \* eglMakeCurrent succeeded
    presented,          \* eglSwapBuffers has been called at least once
    sync_done,          \* the roundtrip's sync callback has fired
    queue,              \* default event queue: read, not yet dispatched
    dispatched,         \* events whose handler has run, in order
    out,                \* requests marshalled by the client, in order
    flushed,            \* how many requests of out have reached the compositor
    failure,            \* the setup step that failed, "" if none
    globals             \* the interfaces of the globals the compositor has

vars == << pc, exit_status, stderr, display, registry, compositor, xdg_wm,
           decoration_manager, toplevel_decoration, wl_surface, xdg_surface,
           xdg_toplevel, egl_window, egl_display, egl_context, egl_surface,
           egl_config, width, height, configured, egl_window_size, viewport,
           egl_current, presented, sync_done, queue, dispatched, out,
           flushed, failure, globals >>

wlHandles == << display, registry, compositor, xdg_wm, decoration_manager,
                toplevel_decoration, wl_surface, xdg_surface, xdg_toplevel >>
eglHandles == << egl_window, egl_display, egl_context, egl_surface, egl_config,
                 egl_window_size, viewport, egl_current >>
sizeVars == << width, height, configured >>
procVars == << exit_status, stderr, failure >>

\* ------------------------------------------------------------ the protocol
Interfaces == {"wl_compositor", "xdg_wm_base", "zxdg_decoration_manager_v1"}
DecorationModes == {"SERVER_SIDE", "CLIENT_SIDE", "OTHER"}
\* (w, h) pairs a toplevel configure may carry: 0 means "client decides".
ConfigSizes == { <<0, 0>>, <<800, 0>>, <<800, 600>>, <<320, 240>> }

Event(t, s, w, h, n) == [type |-> t, serial |-> s, w |-> w, h |-> h, name |-> n]
Request(r, a) == [req |-> r, arg |-> a]
Done == Event("done", 0, 0, 0, "")

\* Events as the compositor decides to send them (serials are stamped on sending).
EventShapes ==
    { Event("global", 0, 0, 0, i) : i \in Interfaces }
    \cup { Event("ping", 0, 0, 0, ""), Event("configure", 0, 0, 0, ""),
           Event("close", 0, 0, 0, "") }
    \cup { Event("toplevel_configure", 0, s[1], s[2], "") : s \in ConfigSizes }
    \cup { Event("decoration_configure", 0, 0, 0, m) : m \in DecorationModes }

\* How many events of seq have a type in types.
Count(seq, types) == Cardinality({ i \in 1..Len(seq) : seq[i].type \in types })
HasRequest(seq, r) == \E i \in 1..Len(seq) : seq[i].req = r
SerialledTypes == {"ping", "configure"}
Serialled(e) == e.type \in SerialledTypes
NotDone(e) == e.type # "done"

\* Every event sent so far has been read: it is dispatched or still queued.
Sent == dispatched \o SelectSeq(queue, NotDone)
NextSerial == Count(Sent, SerialledTypes) + 1

\* The reply to wl_registry.get_registry: one global event per global the
\* compositor has, in the order the compositor created them.
AdvertOrder == << "wl_compositor", "xdg_wm_base", "zxdg_decoration_manager_v1" >>
InGlobals(i) == i \in globals
Advert == [ k \in 1..Cardinality(globals) |->
              Event("global", 0, 0, 0, SelectSeq(AdvertOrder, InGlobals)[k]) ]

\* Events the compositor may still send besides the advertisement.
Remaining ==
    MaxEvents - (Len(Sent) - (IF flushed > 0 THEN Cardinality(globals) ELSE 0))

\* What the compositor may send, given the requests `known` it has received.
MaySend(e, known) ==
    CASE e.type = "global" -> HasRequest(known, "get_registry")
      [] e.type = "ping" -> HasRequest(known, "bind_xdg_wm_base")
      [] e.type = "configure" -> HasRequest(known, "get_xdg_surface")
      [] e.type \in {"toplevel_configure", "close"} -> HasRequest(known, "get_toplevel")
      [] e.type = "decoration_configure" -> HasRequest(known, "get_toplevel_decoration")
      [] OTHER -> FALSE

Stamp(b, first) ==
    [ i \in 1..Len(b) |->
        IF Serialled(b[i])
        THEN [ b[i] EXCEPT !.serial = first + Count(SubSeq(b, 1, i - 1), SerialledTypes) ]
        ELSE b[i] ]

\* The event sequences one read can deliver when the compositor has received `known`.
Batches(known) ==
    LET ok == { e \in EventShapes : MaySend(e, known) }
    IN  { Stamp(b, NextSerial) : b \in UNION { [1..n -> ok] : n \in 0..Remaining } }

\* A batch with the sync reply put after its first i events.
WithDone(b, i) == SubSeq(b, 1, i) \o << Done >> \o SubSeq(b, i + 1, Len(b))

\* ------------------------------------------------------------------- Init
Init ==
    /\ globals \in SUBSET Interfaces
    /\ pc = "connect"
    /\ exit_status = NotExited
    /\ stderr = << >>
    /\ display = NULL /\ registry = NULL /\ compositor = NULL /\ xdg_wm = NULL
    /\ decoration_manager = NULL /\ toplevel_decoration = NULL
    /\ wl_surface = NULL /\ xdg_surface = NULL /\ xdg_toplevel = NULL
    /\ egl_window = NULL
    /\ egl_display = EGL_NO_DISPLAY
    /\ egl_context = EGL_NO_CONTEXT
    /\ egl_surface = EGL_NO_SURFACE
    /\ egl_config = NULL
    /\ width = InitialWidth
    /\ height = InitialHeight
    /\ configured = FALSE
    /\ egl_window_size = <<0, 0>>
    /\ viewport = <<0, 0>>
    /\ egl_current = FALSE
    /\ presented = FALSE
    /\ sync_done = FALSE
    /\ queue = << >>
    /\ dispatched = << >>
    /\ out = << >>
    /\ flushed = 0
    /\ failure = ""

\* ------------------------------------------------------------ process end
\* fprintf(stderr, msg) followed by exit(status) or by main's return.
Die(step, msg, status) ==
    /\ pc' = "exited"
    /\ exit_status' = status
    /\ stderr' = Append(stderr, msg)
    /\ failure' = step

\* A fresh proxy id: each creating request is logged in out, so ids are unique.
NewId == Len(out) + 1

\* ------------------------------------------------------------------- main
Connect ==
    /\ pc = "connect"
    /\ \E ok \in BOOLEAN :
        IF ok
        THEN /\ display' = 1
             /\ pc' = "get_registry"
             /\ UNCHANGED procVars
        ELSE /\ Die("connect", "Failed to connect to Wayland display", 1)
             /\ UNCHANGED display
    /\ UNCHANGED << registry, compositor, xdg_wm, decoration_manager,
                    toplevel_decoration, wl_surface, xdg_surface, xdg_toplevel,
                    eglHandles, sizeVars, presented, sync_done, queue,
                    dispatched, out, flushed, globals >>

GetRegistry ==
    /\ pc = "get_registry"
    /\ registry' = NewId
    /\ out' = Append(out, Request("get_registry", NewId))
    /\ pc' = "roundtrip1"
    /\ UNCHANGED << display, compositor, xdg_wm, decoration_manager,
                    toplevel_decoration, wl_surface, xdg_surface, xdg_toplevel,
                    eglHandles, sizeVars, procVars, presented, sync_done, queue,
                    dispatched, flushed, globals >>

\* ------------------------------------------------------ wl_display_roundtrip
\* wl_display_roundtrip marshals wl_display.sync and then dispatches, reading
\* the connection (after flushing) whenever the queue is empty, until the sync
\* callback has fired.
AfterRoundtrip(p) == IF p = "roundtrip1_wait" THEN "check_globals" ELSE "egl_get_display"

RoundtripBegin ==
    /\ pc \in {"roundtrip1", "roundtrip2"}
    /\ out' = Append(out, Request("sync", NewId))
    /\ sync_done' = FALSE
    /\ pc' = IF pc = "roundtrip1" THEN "roundtrip1_wait" ELSE "roundtrip2_wait"
    /\ UNCHANGED << wlHandles, eglHandles, sizeVars, procVars, presented, queue,
                    dispatched, flushed, globals >>

RoundtripRead ==
    /\ pc \in {"roundtrip1_wait", "roundtrip2_wait"}
    /\ queue = << >>
    /\ ~sync_done
    /\ flushed' = Len(out)
    /\ \E b \in Batches(out) :
        LET first == IF flushed = 0 THEN Advert ELSE << >>
        IN  \/ /\ first \o b # << >>
               /\ queue' = first \o b
            \/ \E i \in 0..Len(b) : queue' = first \o WithDone(b, i)
    /\ UNCHANGED << pc, wlHandles, eglHandles, sizeVars, procVars, presented,
                    sync_done, dispatched, out, globals >>

\* RoundtripReturn without the wait for the sync callback.
RoundtripReturn_no_wait ==
    /\ pc \in {"roundtrip1_wait", "roundtrip2_wait"}
    /\ queue = << >>
    /\ pc' = AfterRoundtrip(pc)
    /\ UNCHANGED << wlHandles, eglHandles, sizeVars, procVars, presented,
                    sync_done, queue, dispatched, out, flushed, globals >>

RoundtripReturn ==
    /\ pc \in {"roundtrip1_wait", "roundtrip2_wait"}
    /\ queue = << >>
    /\ sync_done
    /\ pc' = AfterRoundtrip(pc)
    /\ UNCHANGED << wlHandles, eglHandles, sizeVars, procVars, presented,
                    sync_done, queue, dispatched, out, flushed, globals >>

\* ---------------------------------------------------------- event handlers
\* Handlers run from the dispatch loops of wl_display_roundtrip and
\* wl_display_dispatch_pending, one queued event at a time, in queue order.
DispatchPoints == {"roundtrip1_wait", "roundtrip2_wait", "dispatch"}

Dispatching(t) ==
    /\ pc \in DispatchPoints
    /\ queue # << >>
    /\ Head(queue).type = t

Handled ==
    /\ queue' = Tail(queue)
    /\ dispatched' = Append(dispatched, Head(queue))

\* The listener wl_display_roundtrip installs on its sync callback.
sync_callback_done ==
    /\ Dispatching("done")
    /\ sync_done' = TRUE
    /\ queue' = Tail(queue)
    /\ UNCHANGED dispatched
    /\ UNCHANGED << pc, wlHandles, eglHandles, sizeVars, procVars, presented,
                    out, flushed, globals >>

\* PingReply answering with the serial counter's start instead of the event's serial.
PingReply_fixed_serial(serial) == << Request("pong", 1) >>

\* The requests xdg_wm_base_ping marshals for a ping carrying `serial`.
PingReply(serial) == << Request("pong", serial) >>

xdg_wm_base_ping ==
    /\ Dispatching("ping")
    /\ out' = out \o PingReply(Head(queue).serial)
    /\ Handled
    /\ UNCHANGED << pc, wlHandles, eglHandles, sizeVars, procVars, presented,
                    sync_done, flushed, globals >>

\* ConfigureReply of a handler that only records the event.
ConfigureReply_none(serial) == << >>

\* The requests xdg_surface_configure marshals for a configure carrying `serial`.
ConfigureReply(serial) == << Request("ack_configure", serial) >>

xdg_surface_configure ==
    /\ Dispatching("configure")
    /\ out' = out \o ConfigureReply(Head(queue).serial)
    /\ Handled
    /\ UNCHANGED << pc, wlHandles, eglHandles, sizeVars, procVars, presented,
                    sync_done, flushed, globals >>

\* SizeAccepted with || in place of &&.
SizeAccepted_either(w, h) == w > 0 \/ h > 0

\* The guard of xdg_toplevel_configure: only a size with both sides positive is taken.
SizeAccepted(w, h) == w > 0 /\ h > 0

xdg_toplevel_configure ==
    /\ Dispatching("toplevel_configure")
    /\ LET w == Head(queue).w
           h == Head(queue).h
       IN  IF SizeAccepted(w, h)
           THEN /\ width' = w
                /\ height' = h
                /\ egl_window_size' =
                     IF egl_window # NULL THEN <<w, h>> ELSE egl_window_size
                /\ viewport' =
                     IF egl_display # EGL_NO_DISPLAY /\ egl_surface # EGL_NO_SURFACE
                     THEN <<w, h>> ELSE viewport
           ELSE UNCHANGED << width, height, egl_window_size, viewport >>
    /\ configured' = TRUE
    /\ Handled
    /\ UNCHANGED << pc, wlHandles, egl_window, egl_display, egl_context,
                    egl_surface, egl_config, egl_current, procVars, presented,
                    sync_done, out, flushed, globals >>

\* xdg_toplevel_close with a handler that returns instead of exiting.
xdg_toplevel_close_returns ==
    /\ Dispatching("close")
    /\ Handled
    /\ UNCHANGED << pc, procVars, wlHandles, eglHandles, sizeVars, presented,
                    sync_done, out, flushed, globals >>

\* exit(0) inside the handler: nothing is flushed, destroyed or dispatched after it.
xdg_toplevel_close ==
    /\ Dispatching("close")
    /\ pc' = "exited"
    /\ exit_status' = 0
    /\ Handled
    /\ UNCHANGED << stderr, failure, wlHandles, eglHandles, sizeVars, presented,
                    sync_done, out, flushed, globals >>

DecorationMessage(mode) ==
    IF mode = "SERVER_SIDE" THEN "Decoration: compositor chose SERVER_SIDE (use SSD)"
    ELSE IF mode = "CLIENT_SIDE" THEN "Decoration: compositor chose CLIENT_SIDE (fallback to CSD)"
    ELSE "Decoration: unknown mode"

decoration_configure ==
    /\ Dispatching("decoration_configure")
    /\ stderr' = Append(stderr, DecorationMessage(Head(queue).name))
    /\ Handled
    /\ UNCHANGED << pc, exit_status, failure, wlHandles, eglHandles, sizeVars,
                    presented, sync_done, out, flushed, globals >>

\* Each global event of a known interface binds a new proxy and overwrites the
\* stored pointer; nothing checks whether one was bound before.
registry_handle_global ==
    /\ Dispatching("global")
    /\ LET interface == Head(queue).name
       IN  /\ compositor' = IF interface = "wl_compositor" THEN NewId ELSE compositor
           /\ xdg_wm' = IF interface = "xdg_wm_base" THEN NewId ELSE xdg_wm
           /\ decoration_manager' =
                IF interface = "zxdg_decoration_manager_v1" THEN NewId
                ELSE decoration_manager
           /\ out' = Append(out, Request("bind_" \o interface, NewId))
    /\ Handled
    /\ UNCHANGED << pc, display, registry, toplevel_decoration, wl_surface,
                    xdg_surface, xdg_toplevel, eglHandles, sizeVars, procVars,
                    presented, sync_done, flushed, globals >>

\* ------------------------------------------------------------ main, setup
CheckGlobals ==
    /\ pc = "check_globals"
    /\ IF compositor = NULL \/ xdg_wm = NULL
       THEN Die("globals", "Compositor or xdg_wm_base not available", 1)
       ELSE /\ pc' = "create_window"
            /\ UNCHANGED procVars
    /\ UNCHANGED << wlHandles, eglHandles, sizeVars, presented, sync_done, queue,
                    dispatched, out, flushed, globals >>

\* DecorationRequests without the check that the manager was bound.
DecorationRequests_unconditional(base) ==
    << Request("get_toplevel_decoration", base + 5),
       Request("set_mode_server_side", base + 5) >>

\* The requests create_window marshals when the decoration manager is bound.
DecorationRequests(base) ==
    IF decoration_manager # NULL
    THEN << Request("get_toplevel_decoration", base + 5),
            Request("set_mode_server_side", base + 5) >>
    ELSE << >>

create_window ==
    /\ pc = "create_window"
    /\ LET base == Len(out)
           deco == DecorationRequests(base)
       IN  /\ wl_surface' = base + 1
           /\ xdg_surface' = base + 2
           /\ xdg_toplevel' = base + 3
           /\ toplevel_decoration' = IF deco # << >> THEN base + 5 ELSE toplevel_decoration
           /\ out' = out \o << Request("create_surface", base + 1),
                               Request("get_xdg_surface", base + 2),
                               Request("get_toplevel", base + 3),
                               Request("set_title", xdg_toplevel') >>
                         \o deco
                         \o << Request("commit", wl_surface') >>
    /\ pc' = "roundtrip2"
    /\ UNCHANGED << display, registry, compositor, xdg_wm, decoration_manager,
                    eglHandles, sizeVars, procVars, presented, sync_done, queue,
                    dispatched, flushed, globals >>

\* --------------------------------------------------------------- create_egl
\* Checked with the result of the call ignored.
Checked_ignored(ok, step, msg, next) ==
    /\ pc' = next
    /\ failure' = IF ok THEN failure ELSE step
    /\ UNCHANGED << exit_status, stderr >>

\* One checked call of create_egl: on failure print and exit(1), else go on.
Checked(ok, step, msg, next) ==
    IF ok
    THEN /\ pc' = next
         /\ UNCHANGED procVars
    ELSE Die(step, msg, 1)

EglGetDisplay ==
    /\ pc = "egl_get_display"
    /\ \E ok \in BOOLEAN :
        /\ egl_display' = IF ok THEN 1 ELSE EGL_NO_DISPLAY
        /\ Checked(ok, "eglGetDisplay", "Failed to get EGL display", "egl_initialize")
    /\ UNCHANGED << wlHandles, egl_window, egl_context, egl_surface, egl_config,
                    egl_window_size, viewport, egl_current, sizeVars, presented,
                    sync_done, queue, dispatched, out, flushed, globals >>

EglInitialize ==
    /\ pc = "egl_initialize"
    /\ \E ok \in BOOLEAN :
        Checked(ok, "eglInitialize", "Failed to initialize EGL", "egl_choose_config")
    /\ UNCHANGED << wlHandles, eglHandles, sizeVars, presented, sync_done, queue,
                    dispatched, out, flushed, globals >>

\* The counting call of eglChooseConfig is checked (it fails, or finds n = 0
\* configs); the fetching call that follows repeats it with the same display
\* and attributes and stores configs[0].
EglChooseConfig ==
    /\ pc = "egl_choose_config"
    /\ \E ok \in BOOLEAN, n \in 0..1 :
        /\ egl_config' = IF ok /\ n # 0 THEN 1 ELSE egl_config
        /\ Checked(ok /\ n # 0, "eglChooseConfig", "No EGL configs", "egl_create_context")
    /\ UNCHANGED << wlHandles, egl_window, egl_display, egl_context, egl_surface,
                    egl_window_size, viewport, egl_current, sizeVars, presented,
                    sync_done, queue, dispatched, out, flushed, globals >>

EglCreateContext ==
    /\ pc = "egl_create_context"
    /\ \E ok \in BOOLEAN :
        /\ egl_context' = IF ok THEN 1 ELSE EGL_NO_CONTEXT
        /\ Checked(ok, "eglCreateContext", "Failed to create EGL context", "egl_window_create")
    /\ UNCHANGED << wlHandles, egl_window, egl_display, egl_surface, egl_config,
                    egl_window_size, viewport, egl_current, sizeVars, presented,
                    sync_done, queue, dispatched, out, flushed, globals >>

\* CreationSize taken from the initial constants instead of the current size.
CreationSize_initial == << InitialWidth, InitialHeight >>

\* The size the wl_egl_window is created with.
CreationSize == << width, height >>

\* wl_egl_window_create returns NULL for a size that is not positive.
EglWindowCreate ==
    /\ pc = "egl_window_create"
    /\ \E ok \in BOOLEAN :
        LET made == ok /\ CreationSize[1] > 0 /\ CreationSize[2] > 0
        IN  /\ egl_window' = IF made THEN 1 ELSE NULL
            /\ egl_window_size' = IF made THEN CreationSize ELSE egl_window_size
            /\ Checked(made, "wl_egl_window_create", "Failed to create wl_egl_window",
                       "egl_create_surface")
    /\ UNCHANGED << wlHandles, egl_display, egl_context, egl_surface, egl_config,
                    viewport, egl_current, sizeVars, presented, sync_done, queue,
                    dispatched, out, flushed, globals >>

EglCreateWindowSurface ==
    /\ pc = "egl_create_surface"
    /\ \E ok \in BOOLEAN :
        /\ egl_surface' = IF ok THEN 1 ELSE EGL_NO_SURFACE
        /\ Checked(ok, "eglCreateWindowSurface", "Failed to create EGL window surface",
                   "egl_make_current")
    /\ UNCHANGED << wlHandles, egl_window, egl_display, egl_context, egl_config,
                    egl_window_size, viewport, egl_current, sizeVars, presented,
                    sync_done, queue, dispatched, out, flushed, globals >>

\* eglMakeCurrent and, when it succeeds, the glViewport that ends create_egl.
EglMakeCurrent ==
    /\ pc = "egl_make_current"
    /\ \E ok \in BOOLEAN :
        /\ egl_current' = ok
        /\ viewport' = IF ok THEN << width, height >> ELSE viewport
        /\ Checked(ok, "eglMakeCurrent", "Failed to make EGL context current", "clear")
    /\ UNCHANGED << wlHandles, egl_window, egl_display, egl_context, egl_surface,
                    egl_config, egl_window_size, sizeVars, presented, sync_done,
                    queue, dispatched, out, flushed, globals >>

\* ------------------------------------------------------------ the render loop
\* glViewport, glClearColor, glClear.
Clear ==
    /\ pc = "clear"
    /\ viewport' = << width, height >>
    /\ pc' = "swap"
    /\ UNCHANGED << wlHandles, egl_window, egl_display, egl_context, egl_surface,
                    egl_config, egl_window_size, egl_current, sizeVars, procVars,
                    presented, sync_done, queue, dispatched, out, flushed, globals >>

\* eglSwapBuffers presents the frame; while doing so the EGL platform may read
\* the connection, which queues (without dispatching) what the compositor sent.
SwapBuffers ==
    /\ pc = "swap"
    /\ presented' = TRUE
    /\ \E b \in Batches(SubSeq(out, 1, flushed)) :
        queue' = queue \o b
    /\ pc' = "dispatch"
    /\ UNCHANGED << wlHandles, eglHandles, sizeVars, procVars, sync_done,
                    dispatched, out, flushed, globals >>

\* wl_display_dispatch_pending returns once the queue is drained.
DispatchPendingReturn ==
    /\ pc = "dispatch"
    /\ queue = << >>
    /\ pc' = "flush"
    /\ UNCHANGED << wlHandles, eglHandles, sizeVars, procVars, presented,
                    sync_done, queue, dispatched, out, flushed, globals >>

Flush ==
    /\ pc = "flush"
    /\ flushed' = Len(out)
    /\ pc' = "sleep"
    /\ UNCHANGED << wlHandles, eglHandles, sizeVars, procVars, presented,
                    sync_done, queue, dispatched, out, globals >>

Sleep ==
    /\ pc = "sleep"
    /\ pc' = "clear"
    /\ UNCHANGED << wlHandles, eglHandles, sizeVars, procVars, presented,
                    sync_done, queue, dispatched, out, flushed, globals >>

\* -------------------------------------------------------------- specification
Next ==
    \/ Connect
    \/ GetRegistry
    \/ RoundtripBegin
    \/ RoundtripRead
    \/ RoundtripReturn
    \/ CheckGlobals
    \/ create_window
    \/ EglGetDisplay
    \/ EglInitialize
    \/ EglChooseConfig
    \/ EglCreateContext
    \/ EglWindowCreate
    \/ EglCreateWindowSurface
    \/ EglMakeCurrent
    \/ Clear
    \/ SwapBuffers
    \/ DispatchPendingReturn
    \/ Flush
    \/ Sleep
    \/ sync_callback_done
    \/ xdg_wm_base_ping
    \/ xdg_surface_configure
    \/ xdg_toplevel_configure
    \/ xdg_toplevel_close
    \/ decoration_configure
    \/ registry_handle_global

Spec == Init /\ [][Next]_vars

\* ------------------------------------------------------ helpers of the claims
PcOrder ==
    << "connect", "get_registry", "roundtrip1", "roundtrip1_wait", "check_globals",
       "create_window", "roundtrip2", "roundtrip2_wait", "egl_get_display",
       "egl_initialize", "egl_choose_config", "egl_create_context",
       "egl_window_create", "egl_create_surface", "egl_make_current", "clear" >>
LoopPcs == {"clear", "swap", "dispatch", "flush", "sleep"}
Rank(p) ==
    IF p \in LoopPcs THEN Len(PcOrder)
    ELSE CHOOSE i \in 1..Len(PcOrder) : PcOrder[i] = p
Running == pc # "exited"
Reached(p) == Running /\ Rank(pc) >= Rank(p)
Past(p) == Running /\ Rank(pc) > Rank(p)
LoopNext(p) ==
    CASE p = "clear" -> "swap"
      [] p = "swap" -> "dispatch"
      [] p = "dispatch" -> "flush"
      [] p = "flush" -> "sleep"
      [] p = "sleep" -> "clear"

IsAck(r) == r.req = "ack_configure"
IsPong(r) == r.req = "pong"
IsConfigure(e) == e.type = "configure"
IsPing(e) == e.type = "ping"
IsClose(e) == e.type = "close"
IsToplevelConfigure(e) == e.type = "toplevel_configure"
Args(reqs) == [ i \in 1..Len(reqs) |-> reqs[i].arg ]
Serials(evs) == [ i \in 1..Len(evs) |-> evs[i].serial ]
CountReq(r) == Cardinality({ i \in 1..Len(out) : out[i].req = r })
IndexOf(r) == CHOOSE i \in 1..Len(out) : out[i].req = r

\* ------------------------------------------------------------------------ C1
\* What holds of a state once a setup step has failed, and of one past a checked step.
FailureEndsProcess ==
    /\ failure # "" =>
          /\ pc = "exited"
          /\ exit_status # 0
          /\ exit_status # NotExited
          /\ stderr # << >>
          /\ \A m \in DecorationModes : stderr[Len(stderr)] # DecorationMessage(m)
    /\ Past("connect") => display # NULL
    /\ Past("check_globals") => compositor # NULL /\ xdg_wm # NULL
    /\ Past("egl_get_display") => egl_display # EGL_NO_DISPLAY
    /\ Past("egl_choose_config") => egl_config # NULL
    /\ Past("egl_create_context") => egl_context # EGL_NO_CONTEXT
    /\ Past("egl_window_create") => egl_window # NULL
    /\ Past("egl_create_surface") => egl_surface # EGL_NO_SURFACE
    /\ Past("egl_make_current") => egl_current
    /\ presented => failure = ""

PhaseComplete ==
    /\ Reached("get_registry") => display # NULL
    /\ Reached("roundtrip1") => registry # NULL
    /\ Reached("check_globals") =>
          /\ CountReq("sync") >= 1
          /\ flushed >= 2
          /\ queue = << >> \/ pc \in DispatchPoints
    /\ Reached("check_globals") /\ pc \notin {"roundtrip2", "roundtrip2_wait"} => sync_done
    /\ Reached("roundtrip2") =>
          /\ wl_surface # NULL /\ xdg_surface # NULL /\ xdg_toplevel # NULL
          /\ CountReq("commit") = 1
    /\ ~Reached("roundtrip2") /\ Running => wl_surface = NULL /\ CountReq("commit") = 0
    /\ Reached("egl_get_display") =>
          /\ CountReq("sync") = 2
          /\ flushed >= IndexOf("commit")
    /\ ~Reached("egl_get_display") /\ Running =>
          /\ egl_display = EGL_NO_DISPLAY
          /\ egl_window = NULL
    /\ pc \in LoopPcs => egl_current /\ egl_window # NULL /\ egl_surface # EGL_NO_SURFACE
    /\ ~Reached("clear") /\ Running => ~presented

\* main only moves to the next position, or ends.
PhaseStep ==
    \/ pc' = pc
    \/ pc' = "exited"
    \/ pc \notin LoopPcs /\ pc # "exited" /\ Rank(pc') = Rank(pc) + 1
    \/ pc \in LoopPcs /\ pc' = LoopNext(pc)

\* C2: the phases run in the order connect, bind globals (registry
\* roundtrip), create surface/toplevel, create EGL, loop, each starting only
\* when the one before it is complete; an iteration of the loop runs clear,
\* swap, dispatch (then flush), sleep, in that order.
PhasesInOrder == []PhaseComplete /\ [][PhaseStep]_vars

\* The second iteration of the loop has started after events were handled in the first.
C2_Witness ==
    /\ pc = "clear"
    /\ presented
    /\ dispatched # << >>
    /\ flushed = Len(out)

\* ------------------------------------------------------------------------ C3
\* Serials acked, and serials of the configure events dispatched, in order.
Acks == Args(SelectSeq(out, IsAck))
ConfigureSerials == Serials(SelectSeq(dispatched, IsConfigure))

\* C3: the ack_configure requests sent are, in order and one for one, the
\* serials of the xdg_surface.configure events dispatched; this holds in every
\* state, so each ack is issued by the handler of its event, before any other
\* event is handled, and no serial is acked that was not received.
EveryConfigureAcked == Acks = ConfigureSerials

\* Two configure events with different serials were dispatched and acked.
C3_Witness ==
    /\ Len(ConfigureSerials) = 2
    /\ ConfigureSerials[1] # ConfigureSerials[2]
    /\ Acks = ConfigureSerials

\* ------------------------------------------------------------------------ C4
\* The size of the last event of evs with both sides positive.
RECURSIVE LastPositiveSize(_)
LastPositiveSize(evs) ==
    IF evs = << >> THEN << InitialWidth, InitialHeight >>
    ELSE LET e == evs[Len(evs)]
         IN  IF e.w <= 0 \/ e.h <= 0
             THEN LastPositiveSize(SubSeq(evs, 1, Len(evs) - 1))
             ELSE << e.w, e.h >>

ToplevelConfigures == SelectSeq(dispatched, IsToplevelConfigure)

\* C4: (width, height) is the size of the latest dispatched toplevel configure
\* with w > 0 and h > 0, or 640x480 when there was none; a configure with
\* w <= 0 or h <= 0 changes nothing but the configured flag.
StoredSizeIsLastPositive ==
    /\ << width, height >> = LastPositiveSize(ToplevelConfigures)
    /\ configured <=> ToplevelConfigures # << >>

\* A positive size was stored and a later configure with h = 0 left it alone.
C4_Witness ==
    /\ Len(ToplevelConfigures) = 2
    /\ ToplevelConfigures[1].w > 0 /\ ToplevelConfigures[1].h > 0
    /\ ToplevelConfigures[2].w > 0 /\ ToplevelConfigures[2].h = 0
    /\ width = ToplevelConfigures[1].w
    /\ height = ToplevelConfigures[1].h
    /\ configured

\* ------------------------------------------------------------------------ C6
\* The decoration manager was bound before create_window marshalled its requests.
ManagerBoundBeforeWindow ==
    \E i \in 1..Len(out) :
        /\ out[i].req = "bind_zxdg_decoration_manager_v1"
        /\ i < IndexOf("create_surface")

\* C6: create_window asks for server-side decorations exactly when the
\* decoration manager was bound before it ran, i.e. when its global was
\* dispatched in the first roundtrip: then one decoration object is created
\* and set_mode(SERVER_SIDE) precedes the commit; otherwise no decoration
\* request is ever sent.  The window is created the same way in both cases.
DecorationRequestedIffAdvertised ==
    /\ CountReq("create_surface") = 0 =>
          /\ CountReq("get_toplevel_decoration") = 0
          /\ CountReq("set_mode_server_side") = 0
          /\ toplevel_decoration = NULL
    /\ CountReq("create_surface") > 0 =>
          /\ CountReq("create_surface") = 1
          /\ CountReq("get_xdg_surface") = 1
          /\ CountReq("get_toplevel") = 1
          /\ CountReq("commit") = 1
          /\ xdg_toplevel # NULL
          /\ IF ManagerBoundBeforeWindow
             THEN /\ CountReq("get_toplevel_decoration") = 1
                  /\ CountReq("set_mode_server_side") = 1
                  /\ IndexOf("get_toplevel") < IndexOf("get_toplevel_decoration")
                  /\ IndexOf("get_toplevel_decoration") < IndexOf("set_mode_server_side")
                  /\ IndexOf("set_mode_server_side") < IndexOf("commit")
                  /\ toplevel_decoration # NULL
             ELSE /\ CountReq("get_toplevel_decoration") = 0
                  /\ CountReq("set_mode_server_side") = 0
                  /\ toplevel_decoration = NULL

\* The manager was advertised in the first roundtrip and the request was sent.
C6_Witness ==
    /\ CountReq("commit") = 1
    /\ ManagerBoundBeforeWindow
    /\ CountReq("set_mode_server_side") = 1
    /\ toplevel_decoration # NULL

\* The manager was advertised only after create_window ran: bound, never used.
C6_LateManager ==
    /\ CountReq("commit") = 1
    /\ decoration_manager # NULL
    /\ ~ManagerBoundBeforeWindow
    /\ toplevel_decoration = NULL

\* ------------------------------------------------------------------------ C9
\* C9: while the wl_egl_window exists its size is (width, height); width and
\* height are always positive; every frame is rendered with the viewport
\* (width, height).
WindowSizeTracksStoredSize ==
    /\ width > 0 /\ height > 0
    /\ egl_window # NULL => egl_window_size = << width, height >>
    /\ egl_window = NULL => egl_window_size = << 0, 0 >>
    /\ pc = "swap" => viewport = << width, height >>
    /\ pc \in LoopPcs => viewport = egl_window_size

\* The window was created with a size configured before it existed.
C9_Witness ==
    /\ pc = "egl_create_surface"
    /\ egl_window # NULL
    /\ egl_window_size = << 800, 600 >>
    /\ << width, height >> # << InitialWidth, InitialHeight >>

\* The window was resized, in the loop, by a configure dispatched after its creation.
C9_Resized ==
    /\ pc = "sleep"
    /\ Len(ToplevelConfigures) = 2
    /\ ToplevelConfigures[1].w = 800 /\ ToplevelConfigures[1].h = 600
    /\ egl_window_size = << 320, 240 >>
    /\ viewport = << 320, 240 >>

\* ------------------------------------------------------------------------ C5
\* The handles that hold an object.
LiveHandles ==
    { h \in { display, registry, compositor, xdg_wm, decoration_manager,
              toplevel_decoration, wl_surface, xdg_surface, xdg_toplevel,
              egl_window, egl_display, egl_context, egl_surface } : h # NULL }

\* C5: every handle is created at most once in a run, also when an interface
\* is advertised more than once, and every handle that was created has been
\* destroyed when the process ends, however it ends.
HandlesCreatedOnceAndDestroyed ==
    /\ \A i \in Interfaces : CountReq("bind_" \o i) <= 1
    /\ pc = "exited" => LiveHandles = {}

\* The part of C5 about creation alone: an interface advertised twice is bound twice.
BoundAtMostOnce == \A i \in Interfaces : CountReq("bind_" \o i) <= 1

\* ------------------------------------------------------------------------ C7
\* C7: when create_egl starts, and so when the first frame is presented, the
\* initial xdg_surface.configure has been dispatched and acknowledged and the
\* toplevel configure has set `configured`, whatever the compositor does.
FirstFrameAfterConfigure ==
    presented \/ Reached("egl_get_display") => configured /\ Acks # << >>

\* ------------------------------------------------------------------------ C8
\* A close event is in the queue.
CloseQueued == \E i \in 1..Len(queue) : IsClose(queue[i])

\* What holds of a state around a close event.
CloseEndsProcess ==
    /\ Count(dispatched, {"close"}) <= 1
    /\ Count(dispatched, {"close"}) = 1 =>
          /\ IsClose(dispatched[Len(dispatched)])
          /\ pc = "exited"
          /\ exit_status = 0
    /\ pc = "exited" /\ exit_status = 0 => Count(dispatched, {"close"}) = 1
    /\ pc = "exited" /\ presented => exit_status = 0
    /\ CloseQueued /\ Running => pc \in DispatchPoints
    /\ Running /\ (CloseQueued \/ pc \in LoopPcs) => ENABLED Next

\* A step that leaves the loop is the close handler's exit(0).
LeavesLoopByCloseOnly ==
    pc \in LoopPcs /\ pc' \notin LoopPcs =>
        /\ pc = "dispatch"
        /\ queue # << >>
        /\ IsClose(Head(queue))
        /\ pc' = "exited"
        /\ exit_status' = 0
        /\ presented' = presented
        /\ out' = out

\* No step follows the exit; while a close is queued every step handles the queue's head.
CloseStep ==
    /\ pc # "exited"
    /\ LeavesLoopByCloseOnly
    /\ CloseQueued => queue' = Tail(queue)

\* C8: the loop is left only by the close handler, which ends the process
\* with status 0 at once: close is the last event handled and no step
\* follows it.  A queued close never survives the dispatch step it was queued
\* for: while it is queued the process is at a dispatch point, can step, and
\* every step it takes handles the head of the queue.  Short of a close the
\* loop never stops: each of its states has a next step.
LoopRunsUntilClose == []CloseEndsProcess /\ [][CloseStep]_vars

\* A close was dispatched in the loop with another event queued behind it.
C8_Witness ==
    /\ pc = "exited"
    /\ exit_status = 0
    /\ presented
    /\ IsClose(dispatched[Len(dispatched)])
    /\ queue # << >>

\* ----------------------------------------------------------------------- C10
\* Serials ponged (all, and flushed), of the pings dispatched, and of the pings read.
Pongs == Args(SelectSeq(out, IsPong))
PingSerials == Serials(SelectSeq(dispatched, IsPing))
FlushedPongs == Args(SelectSeq(SubSeq(out, 1, flushed), IsPong))
QueuedPings == Serials(SelectSeq(Sent, IsPing))

\* C10 as stated, its part about pings: the pongs sent are, one for one, the
\* serials of the pings dispatched, and once an iteration's dispatch step is
\* over (the iteration reached its sleep, or the process ended in the step)
\* every ping that was queued for it has been answered and its pong flushed.
PingsAnsweredWithinIteration ==
    /\ Pongs = PingSerials
    /\ presented /\ pc \in {"sleep", "exited"} => FlushedPongs = QueuedPings

\* The state part of the amended C10.
PingsAnswered ==
    /\ Pongs = PingSerials
    /\ pc = "sleep" =>
          /\ queue = << >>
          /\ flushed = Len(out)
          /\ FlushedPongs = QueuedPings
    /\ pc \in {"clear", "swap"} => queue = << >>

\* A step in which a handler ran.
HandlerRan == dispatched' # dispatched \/ (sync_done' /\ ~sync_done)

\* C10 as amended: handlers run only at the dispatch points, one queued event
\* at a time; the pongs sent are, one for one, the serials of the pings
\* dispatched; and in every iteration that reaches its sleep, i.e. that no
\* close event cut short, every ping queued for its dispatch step has been
\* answered and its pong flushed.
PingsAnsweredUnlessClosed ==
    /\ []PingsAnswered
    /\ [][HandlerRan => pc \in DispatchPoints /\ queue' = Tail(queue)]_vars

\* Two pings were dispatched in one run, answered in order and flushed.
C10_Witness ==
    /\ pc = "sleep"
    /\ Len(PingSerials) = 2
    /\ FlushedPongs = PingSerials
    /\ PingSerials[1] # PingSerials[2]

====
